---- MODULE Spec2Model ----
(***************************************************************************)
(* Model of workflow/db_utils.py: the taxonomy name resolver, the three    *)
(* batch invokers (BLAST database, Suffixerator index, LTRHarvest) with    *)
(* their retry loops and marker-file skip checks, and the FASTA aggregator.*)
(*                                                                         *)
(* Python strings are sequences of one-character strings.  Python values   *)
(* that the code may hold in sc_name are tagged records: a str, an int     *)
(* (kept as its decimal digits) or None.                                   *)
(***************************************************************************)
EXTENDS Integers, Sequences, FiniteSets, TLC

VARIABLES
    \* get_species_name_from_file called on its own
    taxid_file,         \* the argument of the call
    response,           \* what the remote taxonomy service does for this call
    result,             \* the outcome of the call
    \* the three invokers
    fn,                 \* which invoker runs: "db", "index" or "harvest"
    file_list, max_attempts, force_rerun, tax_id_input,   \* its parameters
    pc,                 \* position in the invoker's body
    run,                \* number of the current run of the invoker
    idx,                \* position in file_list of the file being processed
    attempt,            \* loop variable of `for attempt in range(max_attempts)`
    sc_name,            \* the local sc_name
    valid_directories,  \* valid_directories / existing_species
    genomes,            \* the result list of directory_db_generator
    dirs, ndb, esq, fasta, gff,   \* the file system: species directories and marker files
    calls,              \* observation: resolver calls made for the current file, in order
    resolved,           \* observation: the sc_name each retry loop ended with, in order
    invoked,            \* observation: external processes spawned, in order
    returned,           \* observation: how each finished run ended
    \* objdict2fasta
    object_dict,        \* the mapping, as the sequence of its entries in insertion order
    out_file,           \* content of the output file: a sequence of records, or NoFile
    fpc,                \* position in objdict2fasta
    pos                 \* number of entries already iterated

vars == <<taxid_file, response, result, fn, file_list, max_attempts, force_rerun,
          tax_id_input, pc, run, idx, attempt, sc_name, valid_directories, genomes,
          dirs, ndb, esq, fasta, gff, calls, resolved, invoked, returned,
          object_dict, out_file, fpc, pos>>

resolverVars == <<taxid_file, response, result>>
invokerVars  == <<fn, file_list, max_attempts, force_rerun, tax_id_input, pc, run, idx,
                  attempt, sc_name, valid_directories, genomes, dirs, ndb, esq, fasta,
                  gff, calls, resolved, invoked, returned>>
fastaVars    == <<object_dict, out_file, fpc, pos>>

----------------------------------------------------------------------------
(* Bounds *)
MaxLen      == 3    \* longest identifier given to the resolver on its own
MaxFiles    == 2    \* longest file_list
MaxAttempts == 2    \* largest max_attempts
MaxEntries  == 3    \* largest object_dict

----------------------------------------------------------------------------
(* Python strings *)
Digits  == <<"0", "1", "2", "3", "4", "5", "6", "7", "8", "9">>
IsDigit(c) == \E d \in 1..10 : Digits[d] = c
DigitVal(c) == (CHOOSE d \in 1..10 : Digits[d] = c) - 1

IdChars == {"0", "1", ".", "_", "a"}
Strings(n) == UNION {[1..k -> IdChars] : k \in 0..n}

\* s.split('.')[0]: the part of s before its first '.', all of s when it has none
SplitFirst(s) ==
    IF \E k \in 1..Len(s) : s[k] = "."
    THEN SubSeq(s, 1, (CHOOSE k \in 1..Len(s) : s[k] = "." /\ \A j \in 1..(k-1) : s[j] # ".") - 1)
    ELSE s

\* s.replace(" ", "_")
ReplaceSpaces(s) == [k \in 1..Len(s) |-> IF s[k] = " " THEN "_" ELSE s[k]]

\* int(s) accepts, over the characters used here, decimal digits with single
\* underscores between digits (leading zeros allowed); anything else is ValueError
IntParses(s) ==
    /\ Len(s) > 0
    /\ \A k \in 1..Len(s) : IsDigit(s[k]) \/ s[k] = "_"
    /\ IsDigit(s[1]) /\ IsDigit(s[Len(s)])
    /\ \A k \in 1..(Len(s)-1) : ~(s[k] = "_" /\ s[k+1] = "_")

RECURSIVE IntValue(_)
IntValue(s) ==
    IF Len(s) = 0 THEN 0
    ELSE IF s[Len(s)] = "_" THEN IntValue(SubSeq(s, 1, Len(s)-1))
    ELSE 10 * IntValue(SubSeq(s, 1, Len(s)-1)) + DigitVal(s[Len(s)])

\* str(n) for n >= 0
RECURSIVE IntToStr(_)
IntToStr(n) ==
    IF n < 10 THEN <<Digits[n+1]>>
    ELSE IntToStr(n \div 10) \o <<Digits[(n % 10) + 1]>>

(* Python values *)
PyStr(s) == [t |-> "str", v |-> s]
PyInt(n) == [t |-> "int", v |-> IntToStr(n)]
PyNone   == [t |-> "None", v |-> <<>>]

----------------------------------------------------------------------------
(* The remote taxonomy service (Entrez.efetch + Entrez.read) *)
ScientificNames == {<<"H", " ", "s">>, <<"a">>}

Records(name) == [kind |-> "records",    name |-> name]   \* a non-empty record list
EmptyRecords  == [kind |-> "empty",      name |-> <<>>]   \* an empty record list
RemoteError   == [kind |-> "error",      name |-> <<>>]   \* an exception that is not a ValueError
RemoteValueError == [kind |-> "valueerror", name |-> <<>>] \* a ValueError (Bio.Entrez parser errors are)

Responses == {Records(n) : n \in ScientificNames} \cup {EmptyRecords, RemoteError, RemoteValueError}

(* Outcomes of a resolver call *)
Return(value, queried) == [kind |-> "return", value |-> value, queried |-> queried]
Raise                  == [kind |-> "raise",  value |-> PyNone, queried |-> TRUE]
NoResult               == [kind |-> "none",   value |-> PyNone, queried |-> FALSE]

\* the resolver with the str() of line 41 left out
get_species_name_from_file_NoStr(file, resp) ==
    LET taxid_file_query == SplitFirst(file) IN
    IF ~IntParses(taxid_file_query)
    THEN Return(PyStr(taxid_file_query), FALSE)
    ELSE LET id == IntValue(taxid_file_query) IN
         CASE resp.kind = "error"      -> Raise
           [] resp.kind = "valueerror" -> Return(PyInt(id), TRUE)
           [] resp.kind = "empty"      -> Return(PyInt(id), TRUE)
           [] resp.kind = "records"    -> Return(PyStr(ReplaceSpaces(resp.name)), TRUE)

\* the resolver raising on the not-found path instead of returning the id
get_species_name_from_file_NotFoundRaises(file, resp) ==
    LET taxid_file_query == SplitFirst(file) IN
    IF ~IntParses(taxid_file_query)
    THEN Return(PyStr(taxid_file_query), FALSE)
    ELSE LET id == IntValue(taxid_file_query) IN
         CASE resp.kind = "error"      -> Raise
           [] resp.kind = "valueerror" -> Return(PyInt(id), TRUE)
           [] resp.kind = "empty"      -> Raise
           [] resp.kind = "records"    -> Return(PyStr(ReplaceSpaces(resp.name)), TRUE)

\* get_species_name_from_file: resp is what the remote service does if it is queried
get_species_name_from_file(file, resp) ==
    LET taxid_file_query == SplitFirst(file) IN
    IF ~IntParses(taxid_file_query)
    THEN Return(PyStr(taxid_file_query), FALSE)              \* except ValueError, raised by int()
    ELSE LET id == IntValue(taxid_file_query) IN
         CASE resp.kind = "error"      -> Raise
           [] resp.kind = "valueerror" -> Return(PyInt(id), TRUE)   \* except ValueError; the query is the int by now
           [] resp.kind = "empty"      -> Return(PyStr(IntToStr(id)), TRUE)
           [] resp.kind = "records"    -> Return(PyStr(ReplaceSpaces(resp.name)), TRUE)

----------------------------------------------------------------------------
(* Values of the variables a specification does not use *)
ResolverIdle == taxid_file = <<>> /\ response = EmptyRecords /\ result = NoResult
InvokerIdle ==
    /\ fn = "none" /\ file_list = <<>> /\ max_attempts = 0 /\ force_rerun = FALSE
    /\ tax_id_input = FALSE /\ pc = "none" /\ run = 0 /\ idx = 0 /\ attempt = 0
    /\ sc_name = PyNone /\ valid_directories = {} /\ genomes = <<>>
    /\ dirs = {} /\ ndb = {} /\ esq = {} /\ fasta = {} /\ gff = {}
    /\ calls = <<>> /\ resolved = <<>> /\ invoked = <<>> /\ returned = <<>>
FastaIdle ==
    /\ object_dict = <<>> /\ out_file = [exists |-> FALSE, content |-> <<>>]
    /\ fpc = "none" /\ pos = 0

----------------------------------------------------------------------------
(* The resolver called on its own, as taxlist2name calls it *)
InitResolver ==
    /\ taxid_file \in Strings(MaxLen)
    /\ response \in Responses
    /\ result = NoResult
    /\ InvokerIdle /\ FastaIdle

ResolveCall ==
    /\ result = NoResult
    /\ result' = get_species_name_from_file(taxid_file, response)
    /\ UNCHANGED <<taxid_file, response>>
    /\ UNCHANGED invokerVars /\ UNCHANGED fastaVars

NextResolver == ResolveCall
SpecResolver == InitResolver /\ [][NextResolver]_vars

----------------------------------------------------------------------------
(* The batch invokers: directory_db_generator (lines 92-167),              *)
(* ltr_index_generator (191-245) and ltr_harvester (249-298).  The three   *)
(* share the retry loop (133-144, 220-230, 273-283) and the skip check     *)
(* (147-149, 233-235, 286-288); fn tells which one runs.                   *)

\* input files, named by tax-id or by label
File1 == <<"1", ".", "f">>              \* tax-id 1, known to the taxonomy service
File2 == <<"2", ".", "f">>              \* tax-id 2, no record
File3 == <<"H", "_", "s", ".", "f">>    \* a label
Files == {File1, File2, File3}

\* the content of the taxonomy database
Taxonomy(id) == IF id = 1 THEN Records(<<"H", " ", "s">>) ELSE EmptyRecords

\* what the taxonomy service can do when the resolver is called for a file
RemoteFor(file) ==
    LET q == SplitFirst(SplitFirst(file)) IN
    IF IntParses(q) THEN {Taxonomy(IntValue(q)), RemoteError, RemoteValueError}
                    ELSE {EmptyRecords}      \* not queried

\* defaults.SPECIES
SPECIES == {<<"H", "_", "s">>}

\* names a species directory or output file can have
SpeciesNames == {<<"H", "_", "s">>, <<"2">>}

\* `value in collection` for a collection of strings
In(value, collection) == value.t = "str" /\ value.v \in collection

FileLists == UNION {[1..n -> Files] : n \in 0..MaxFiles}

file == file_list[idx]

\* existing_species requiring the .gff file next to the .fasta file
existing_species_Pair == fasta \cap gff

\* the set of directories holding a marker file, as each invoker computes it
valid_directories_db      == {d \in dirs : d \in ndb}      \* glob <root>/<d>/*.ndb
valid_directories_index   == {d \in dirs : d \in esq}      \* glob <root>/<d>/*.esq
existing_species          == fasta                          \* glob <root>/*.fasta

Scan ==
    /\ pc = "start"
    /\ valid_directories' = CASE fn = "db"      -> valid_directories_db
                              [] fn = "index"   -> valid_directories_index
                              [] fn = "harvest" -> existing_species
    /\ genomes' = <<>>
    /\ idx' = 1
    /\ pc' = "for_file"
    /\ UNCHANGED <<fn, file_list, max_attempts, force_rerun, tax_id_input, run, attempt,
                   sc_name, dirs, ndb, esq, fasta, gff, calls, resolved, invoked, returned>>
    /\ UNCHANGED resolverVars /\ UNCHANGED fastaVars

\* `for file in file_list`: the next file, or the end of the function
ForFile ==
    /\ pc = "for_file" /\ idx <= Len(file_list)
    /\ sc_name' = PyNone
    /\ attempt' = 0
    /\ pc' = "for_attempt"
    /\ calls' = <<>>
    /\ UNCHANGED <<fn, file_list, max_attempts, force_rerun, tax_id_input, run, idx,
                   valid_directories, genomes, dirs, ndb, esq, fasta, gff, resolved,
                   invoked, returned>>
    /\ UNCHANGED resolverVars /\ UNCHANGED fastaVars

ReturnFromInvoker ==
    /\ pc = "for_file" /\ idx > Len(file_list)
    /\ pc' = "returned"
    /\ returned' = Append(returned, [run |-> run, how |-> "return",
                                     value |-> IF fn = "db" THEN genomes ELSE <<>>])
    /\ UNCHANGED <<fn, file_list, max_attempts, force_rerun, tax_id_input, run, idx,
                   attempt, sc_name, valid_directories, genomes, dirs, ndb, esq, fasta,
                   gff, calls, resolved, invoked>>
    /\ UNCHANGED resolverVars /\ UNCHANGED fastaVars

\* `if attempt == max_attempts - 1`, mis-stated as one attempt too many
LastAttempt_OffByOne == attempt = max_attempts

\* `if attempt == max_attempts - 1`
LastAttempt == attempt = max_attempts - 1

\* one iteration of `for attempt in range(max_attempts)`: a resolver call.
\* calls records the call: the file position, the attempt number, what the
\* remote service did (resp) and how the call ended.
ResolverAttempt ==
    /\ pc = "for_attempt" /\ attempt < max_attempts
    /\ \E resp \in RemoteFor(file) :
         LET r == get_species_name_from_file(SplitFirst(file), resp) IN
         /\ calls' = Append(calls, [run |-> run, pos |-> idx, attempt |-> attempt + 1,
                                    resp |-> resp, kind |-> r.kind, value |-> r.value])
         /\ IF r.kind = "return"
            THEN /\ sc_name' = r.value                       \* break
                 /\ pc' = "skip_check"
                 /\ resolved' = Append(resolved, [run |-> run, pos |-> idx, value |-> r.value])
                 /\ UNCHANGED <<attempt, returned>>
            ELSE IF LastAttempt
            THEN /\ pc' = "raised"                           \* raise RuntimeError(...) from e
                 /\ returned' = Append(returned, [run |-> run, how |-> "RuntimeError",
                                                  value |-> <<>>])
                 /\ UNCHANGED <<attempt, sc_name, resolved>>
            ELSE /\ attempt' = attempt + 1
                 /\ UNCHANGED <<pc, sc_name, returned, resolved>>
    /\ UNCHANGED <<fn, file_list, max_attempts, force_rerun, tax_id_input, run, idx,
                   valid_directories, genomes, dirs, ndb, esq, fasta, gff, invoked>>
    /\ UNCHANGED resolverVars /\ UNCHANGED fastaVars

\* range(max_attempts) is exhausted without a break or a raise
RangeExhausted ==
    /\ pc = "for_attempt" /\ attempt >= max_attempts
    /\ pc' = "skip_check"
    /\ resolved' = Append(resolved, [run |-> run, pos |-> idx, value |-> sc_name])
    /\ UNCHANGED <<fn, file_list, max_attempts, force_rerun, tax_id_input, run, idx,
                   attempt, sc_name, valid_directories, genomes, dirs, ndb, esq, fasta,
                   gff, calls, invoked, returned>>
    /\ UNCHANGED resolverVars /\ UNCHANGED fastaVars

\* the skip check with force_rerun left out
SkipCondition_IgnoresForce == In(sc_name, valid_directories)

\* the skip check never taken
SkipCondition_Never == FALSE

\* `if sc_name in valid_directories and not force_rerun: continue`
SkipCondition == In(sc_name, valid_directories) /\ ~force_rerun

Skip ==
    /\ pc = "skip_check" /\ SkipCondition
    /\ idx' = idx + 1
    /\ pc' = "for_file"
    /\ UNCHANGED <<fn, file_list, max_attempts, force_rerun, tax_id_input, run, attempt,
                   sc_name, valid_directories, genomes, dirs, ndb, esq, fasta, gff,
                   calls, resolved, invoked, returned>>
    /\ UNCHANGED resolverVars /\ UNCHANGED fastaVars

\* the registry test left out
GateCondition_Open == sc_name.t = "str"

\* `if sc_name in defaults.SPECIES:` of ltr_index_generator and ltr_harvester
GateCondition == In(sc_name, SPECIES)

GatePass ==
    /\ pc = "skip_check" /\ ~SkipCondition
    /\ fn \in {"index", "harvest"} /\ GateCondition
    /\ pc' = "spawn"
    /\ UNCHANGED <<fn, file_list, max_attempts, force_rerun, tax_id_input, run, idx,
                   attempt, sc_name, valid_directories, genomes, dirs, ndb, esq, fasta,
                   gff, calls, resolved, invoked, returned>>
    /\ UNCHANGED resolverVars /\ UNCHANGED fastaVars

GateBlock ==
    /\ pc = "skip_check" /\ ~SkipCondition
    /\ fn \in {"index", "harvest"} /\ ~GateCondition
    /\ idx' = idx + 1
    /\ pc' = "for_file"
    /\ UNCHANGED <<fn, file_list, max_attempts, force_rerun, tax_id_input, run, attempt,
                   sc_name, valid_directories, genomes, dirs, ndb, esq, fasta, gff,
                   calls, resolved, invoked, returned>>
    /\ UNCHANGED resolverVars /\ UNCHANGED fastaVars

\* utils.directory_generator(output_directory_path, sc_name): the species
\* directory is created if absent; a name that is not a str cannot be joined
\* to a path (TypeError, at line 86 at the latest)
directory_generator(existing, name) == existing \cup {name}

\* the call of line 152 left out, as in the other two invokers
species_directory_NotCreated(existing, name) == existing

\* directory = utils.directory_generator(output_directory_path, sc_name)
species_directory(existing, name) == directory_generator(existing, name)

MakeDirectory ==
    /\ pc = "skip_check" /\ ~SkipCondition
    /\ fn = "db"
    /\ IF sc_name.t = "str"
       THEN /\ dirs' = species_directory(dirs, sc_name.v)
            /\ pc' = "spawn"
            /\ UNCHANGED returned
       ELSE /\ pc' = "crashed"
            /\ returned' = Append(returned, [run |-> run, how |-> "TypeError", value |-> <<>>])
            /\ UNCHANGED dirs
    /\ UNCHANGED <<fn, file_list, max_attempts, force_rerun, tax_id_input, run, idx,
                   attempt, sc_name, valid_directories, genomes, ndb, esq, fasta,
                   gff, calls, resolved, invoked>>
    /\ UNCHANGED resolverVars /\ UNCHANGED fastaVars

\* the input the external tool is given
Suffix == <<".", "f", "a", "s", "t", "a">>
tool_input ==
    CASE fn = "db"      -> IF tax_id_input THEN file ELSE sc_name.v \o Suffix
      [] fn = "index"   -> file
      [] fn = "harvest" -> sc_name.v

\* the marker file of a species is in the tree right now
marker_present(name) ==
    CASE fn = "db"      -> name \in dirs /\ name \in ndb
      [] fn = "index"   -> name \in dirs /\ name \in esq
      [] fn = "harvest" -> name \in fasta

\* subprocess.run(...) starts the external tool.  invoked records the spawn:
\* the file position, the command, and whether the species was marked complete
\* at that moment.
Spawn ==
    /\ pc = "spawn"
    /\ invoked' = Append(invoked, [run |-> run, pos |-> idx, tool |-> fn,
                                   name |-> sc_name.v, input |-> tool_input,
                                   marked |-> marker_present(sc_name.v)])
    /\ pc' = "running"
    /\ UNCHANGED <<fn, file_list, max_attempts, force_rerun, tax_id_input, run, idx,
                   attempt, sc_name, valid_directories, genomes, dirs, ndb, esq, fasta,
                   gff, calls, resolved, returned>>
    /\ UNCHANGED resolverVars /\ UNCHANGED fastaVars

\* the append of line 165 left out
record_genome_Dropped(list, name) == list

\* genomes.append(sc_name)
record_genome(list, name) == Append(list, name)

\* the external tool exits; its exit status is not looked at.  A tool that
\* succeeded has written its output files, a tool that failed has written none.
ToolExit ==
    /\ pc = "running"
    /\ \E ok \in BOOLEAN :
         /\ ndb'   = IF ok /\ fn = "db"      THEN ndb \cup {sc_name.v}   ELSE ndb
         /\ esq'   = IF ok /\ fn = "index"   THEN esq \cup {sc_name.v}   ELSE esq
         /\ dirs'  = IF ok /\ fn = "index"   THEN dirs \cup {sc_name.v}  ELSE dirs
         /\ fasta' = IF ok /\ fn = "harvest" THEN fasta \cup {sc_name.v} ELSE fasta
         /\ gff'   = IF ok /\ fn = "harvest" THEN gff \cup {sc_name.v}   ELSE gff
    /\ genomes' = IF fn = "db" THEN record_genome(genomes, sc_name.v) ELSE genomes
    /\ idx' = idx + 1
    /\ pc' = "for_file"
    /\ UNCHANGED <<fn, file_list, max_attempts, force_rerun, tax_id_input, run, attempt,
                   sc_name, valid_directories, calls, resolved, invoked, returned>>
    /\ UNCHANGED resolverVars /\ UNCHANGED fastaVars

\* the invoker has returned and the caller runs it a second time, on the same arguments
Rerun ==
    /\ pc = "returned"
    /\ run = 1
    /\ run' = 2
    /\ pc' = "start"
    /\ idx' = 0 /\ attempt' = 0 /\ sc_name' = PyNone
    /\ valid_directories' = {} /\ genomes' = <<>> /\ calls' = <<>>
    /\ UNCHANGED <<fn, file_list, max_attempts, force_rerun, tax_id_input, dirs, ndb, esq,
                   fasta, gff, resolved, invoked, returned>>
    /\ UNCHANGED resolverVars /\ UNCHANGED fastaVars

InvokerParameters ==
    /\ fn \in {"db", "index", "harvest"}
    /\ file_list \in FileLists
    /\ max_attempts \in 0..MaxAttempts
    /\ force_rerun \in BOOLEAN
    /\ tax_id_input \in (IF fn = "db" THEN BOOLEAN ELSE {FALSE})

InvokerStart ==
    /\ pc = "start" /\ run = 1 /\ idx = 0 /\ attempt = 0 /\ sc_name = PyNone
    /\ valid_directories = {} /\ genomes = <<>>
    /\ calls = <<>> /\ resolved = <<>> /\ invoked = <<>> /\ returned = <<>>

\* any output tree: marker files lie in existing directories
AnyTree ==
    /\ dirs  \in (IF fn \in {"db", "index"} THEN SUBSET SpeciesNames ELSE {{}})
    /\ ndb   \in (IF fn = "db"      THEN SUBSET dirs ELSE {{}})
    /\ esq   \in (IF fn = "index"   THEN SUBSET dirs ELSE {{}})
    /\ fasta \in (IF fn = "harvest" THEN SUBSET SpeciesNames ELSE {{}})
    /\ gff   \in (IF fn = "harvest" THEN SUBSET SpeciesNames ELSE {{}})

EmptyTree == dirs = {} /\ ndb = {} /\ esq = {} /\ fasta = {} /\ gff = {}

Init == InvokerParameters /\ InvokerStart /\ AnyTree /\ ResolverIdle /\ FastaIdle

Next ==
    \/ Scan \/ ForFile \/ ReturnFromInvoker \/ ResolverAttempt \/ RangeExhausted
    \/ Skip \/ GatePass \/ GateBlock \/ MakeDirectory \/ Spawn \/ ToolExit

Spec == Init /\ [][Next]_vars

\* two runs in sequence, the first on an empty output tree
InitTwice == InvokerParameters /\ InvokerStart /\ EmptyTree /\ ResolverIdle /\ FastaIdle
NextTwice == Next \/ Rerun
SpecTwice == InitTwice /\ [][NextTwice]_vars

----------------------------------------------------------------------------
(* objdict2fasta *)
Keys       == 1..MaxEntries
SeqRecords == {"r1", "r2"}
\* an object of the mapping: get_fasta('seqrecord') gives a record, or raises
Objects    == [ok : {TRUE}, rec : SeqRecords] \cup {[ok |-> FALSE, rec |-> "none"]}

\* dicts, as the sequences of their (key, object) entries in insertion order
ObjectDicts ==
    UNION {{d \in [1..n -> [key : Keys, obj : Objects]] :
               \A a, b \in 1..n : a # b => d[a].key # d[b].key} : n \in 0..MaxEntries}

NoFile == [exists |-> FALSE, content |-> <<>>]
FileContents == {NoFile, [exists |-> TRUE, content |-> <<>>],
                 [exists |-> TRUE, content |-> <<"old">>]}

\* open(path, 'a'): previous content kept
open_a(f) == [exists |-> TRUE, content |-> f.content]

\* open(path, 'w'): the file is created or truncated
open_w(f) == [exists |-> TRUE, content |-> <<>>]

\* SeqIO.write(record, handle, 'fasta'): one record appended
SeqIO_write(f, rec) == [exists |-> TRUE, content |-> Append(f.content, rec)]

\* the partial file removed when an exception passes
with_exit_Cleanup(f) == NoFile

\* leaving `with open(...)`, by an exception too: what was written is flushed,
\* the file is closed and stays
with_exit(f) == f

InitFasta ==
    /\ object_dict \in ObjectDicts
    /\ out_file \in FileContents
    /\ fpc = "start" /\ pos = 0
    /\ ResolverIdle /\ InvokerIdle

OpenOutput ==
    /\ fpc = "start"
    /\ out_file' = open_w(out_file)
    /\ fpc' = "loop"
    /\ UNCHANGED <<object_dict, pos>>
    /\ UNCHANGED resolverVars /\ UNCHANGED invokerVars

\* one iteration of `for key, obj in object_dict.items()`
WriteEntry ==
    /\ fpc = "loop" /\ pos < Len(object_dict)
    /\ LET obj == object_dict[pos + 1].obj IN
       IF obj.ok
       THEN /\ out_file' = SeqIO_write(out_file, obj.rec)
            /\ pos' = pos + 1
            /\ UNCHANGED fpc
       ELSE /\ fpc' = "raised"          \* the exception leaves the with block
            /\ out_file' = with_exit(out_file)
            /\ UNCHANGED pos
    /\ UNCHANGED object_dict
    /\ UNCHANGED resolverVars /\ UNCHANGED invokerVars

CloseOutput ==
    /\ fpc = "loop" /\ pos = Len(object_dict)
    /\ fpc' = "done"
    /\ UNCHANGED <<object_dict, out_file, pos>>
    /\ UNCHANGED resolverVars /\ UNCHANGED invokerVars

NextFasta == OpenOutput \/ WriteEntry \/ CloseOutput
SpecFasta == InitFasta /\ [][NextFasta]_vars

----------------------------------------------------------------------------
(* Observations used by the properties *)
ResolvedFor(r, p) == SelectSeq(resolved, LAMBDA e : e.run = r /\ e.pos = p)
InvokedFor(r, p)  == SelectSeq(invoked,  LAMBDA v : v.run = r /\ v.pos = p)
InvokedIn(r)      == SelectSeq(invoked,  LAMBDA v : v.run = r)
Positions == 1..Len(file_list)
AllRaise(cs) == \A k \in 1..Len(cs) : cs[k].kind = "raise"
\* the value sc_name had when run r left the retry loop of position p
ResolvedValue(r, p) ==
    IF ResolvedFor(r, p) = <<>> THEN PyNone ELSE ResolvedFor(r, p)[1].value
\* the part of a file name the resolver tries to parse
Query(p) == SplitFirst(SplitFirst(file_list[p]))
\* run r is past the file at position p
Completed(r, p) == r < run \/ (r = run /\ p < idx)
\* all max_attempts attempts for the current file raised
Exhausted == Len(calls) > 0 /\ Len(calls) = max_attempts /\ AllRaise(calls)

----------------------------------------------------------------------------
(* C1: in each invoker the attempts for a file are numbered 1, 2, ... up to *)
(* max_attempts; an attempt is made only after all earlier ones raised; a   *)
(* returning attempt k is the last call for the file and its value is the   *)
(* species name the file is processed with; when all max_attempts attempts  *)
(* raised the invoker has raised RuntimeError, after exactly max_attempts   *)
(* calls for that file.                                                     *)
C1_RetryBound ==
    LET n == Len(calls) IN
    /\ n <= max_attempts
    /\ \A k \in 1..n : calls[k].attempt = k /\ calls[k].run = run /\ (k < n => calls[k].kind = "raise")
    /\ \A k \in 1..n : calls[k].pos = calls[n].pos
    /\ (n > 0 /\ calls[n].kind = "return") =>
          LET p == calls[n].pos IN
          /\ sc_name = calls[n].value
          /\ pc # "for_attempt" /\ pc # "raised"
          /\ Len(ResolvedFor(run, p)) = 1 /\ ResolvedValue(run, p) = calls[n].value
          /\ \A k \in 1..Len(InvokedFor(run, p)) :
                PyStr(InvokedFor(run, p)[k].name) = calls[n].value
    /\ (n > 0 /\ AllRaise(calls)) =>
          /\ calls[n].pos = idx
          /\ ResolvedFor(run, idx) = <<>> /\ InvokedFor(run, idx) = <<>>
          /\ IF n = max_attempts THEN pc = "raised"
                                 ELSE pc = "for_attempt" /\ attempt = n
    /\ pc = "raised" => Exhausted
    /\ pc = "for_attempt" => attempt = n

\* the second file of the list resolved on its second and last attempt and its tool runs
C1_Witness ==
    /\ pc = "running" /\ idx = 2 /\ max_attempts = 2
    /\ Len(calls) = 2 /\ calls[1].kind = "raise" /\ calls[2].kind = "return"
    /\ invoked[Len(invoked)].pos = 2

(* C3: ltr_index_generator and ltr_harvester never start the external tool  *)
(* for a name that is not in defaults.SPECIES, whatever the markers present *)
(* and whatever force_rerun is.                                             *)
C3_AllowList ==
    /\ \A j \in 1..Len(invoked) :
          invoked[j].tool \in {"index", "harvest"} => invoked[j].name \in SPECIES
    /\ (fn \in {"index", "harvest"} /\ pc \in {"spawn", "running"}) => In(sc_name, SPECIES)

\* a forced run has passed a file that resolved to an unregistered name without
\* a marker, and has started no tool for it
C3_Witness ==
    /\ fn \in {"index", "harvest"} /\ force_rerun /\ pc = "returned"
    /\ \E p \in Positions :
         /\ ResolvedValue(run, p).t = "str"
         /\ ResolvedValue(run, p).v \notin SPECIES
         /\ ResolvedValue(run, p).v \notin valid_directories
         /\ InvokedFor(run, p) = <<>>

(* C7: a resolver call that returns - the not-found and the malformed      *)
(* identifier fallbacks included, which do return - is the last call for    *)
(* its file and its value becomes sc_name; an attempt after the first is    *)
(* made only when the attempt before it, for the same file, raised.         *)
C7_ReturnEndsRetry ==
    \A j \in 1..Len(calls) :
      LET c == calls[j]
          q == Query(c.pos) IN
      /\ ~IntParses(q) => (c.kind = "return" /\ c.value = PyStr(q))
      /\ (IntParses(q) /\ c.resp.kind = "empty") =>
            (c.kind = "return" /\ c.value = PyStr(IntToStr(IntValue(q))))
      /\ c.kind = "return" =>
            /\ j = Len(calls)
            /\ sc_name = c.value
            /\ pc # "for_attempt"
      /\ c.attempt = j
      /\ j > 1 => (calls[j-1].kind = "raise" /\ calls[j-1].pos = c.pos)

\* a malformed-identifier fallback, then a not-found fallback, after one call each
C7_Witness ==
    /\ pc = "returned" /\ max_attempts = 2 /\ Len(file_list) = 2
    /\ ~IntParses(Query(1)) /\ ResolvedValue(run, 1) = PyStr(Query(1))
    /\ IntParses(Query(2))
    /\ Len(calls) = 1 /\ calls[1].pos = 2 /\ calls[1].resp.kind = "empty"
    /\ ResolvedValue(run, 2) = PyStr(Query(2))

(* C8: once all max_attempts attempts for the file at position idx raised,  *)
(* the invoker has raised RuntimeError and does nothing more: no step is    *)
(* enabled, nothing was resolved or spawned for this or a later position,   *)
(* and the run has not returned a result list.                              *)
C8_ExhaustionAborts ==
    Exhausted =>
      /\ pc = "raised"
      /\ ~ENABLED Next
      /\ \A j \in 1..Len(calls)    : calls[j].pos = idx
      /\ \A j \in 1..Len(resolved) : resolved[j].run = run => resolved[j].pos < idx
      /\ \A j \in 1..Len(invoked)  : invoked[j].run = run => invoked[j].pos < idx
      /\ \A j \in 1..Len(returned) : returned[j].run = run =>
            (j = Len(returned) /\ returned[j].how = "RuntimeError" /\ returned[j].value = <<>>)

\* the database builder ran for the first file, the second file exhausted its attempts
C8_Witness ==
    /\ fn = "db" /\ Len(file_list) = 2 /\ idx = 2 /\ Exhausted
    /\ Len(InvokedFor(run, 1)) = 1 /\ Len(genomes) = 1

----------------------------------------------------------------------------
(* C5 (as claimed): an identifier whose query part does not parse as an     *)
(* integer is returned unchanged, without a remote query.                   *)
C5_ReturnedUnchanged ==
    (result # NoResult /\ ~IntParses(SplitFirst(taxid_file))) =>
        (result.kind = "return" /\ ~result.queried /\ result.value = PyStr(taxid_file))

(* C6: when the query part parses as the integer id and the service has no *)
(* record, the call returns str(id) and raises nothing.                     *)
C6_NotFoundReturnsId ==
    (result # NoResult /\ IntParses(SplitFirst(taxid_file)) /\ response = EmptyRecords) =>
        /\ result.kind = "return"
        /\ result.value = PyStr(IntToStr(IntValue(SplitFirst(taxid_file))))

\* a two-digit id without a record
C6_Witness ==
    /\ result # NoResult /\ response = EmptyRecords
    /\ taxid_file = <<"1", "0">>
    /\ result.value = PyStr(<<"1", "0">>)

----------------------------------------------------------------------------
\* every species run r resolved is in the set of directories holding a marker
AllMarked(r) == \A p \in Positions : In(ResolvedValue(r, p), valid_directories)
\* the command lines of the external processes run r spawned for position p
Command(v) == [tool |-> v.tool, name |-> v.name, input |-> v.input]
Commands(r, p) == [k \in 1..Len(InvokedFor(r, p)) |-> Command(InvokedFor(r, p)[k])]

(* C2: directory_db_generator, force_rerun false, run a second time on the  *)
(* same arguments after a run that returned: when every species of          *)
(* file_list is marked complete (its directory holds a .ndb file when the   *)
(* second run scans the tree), the second run starts no database builder,   *)
(* and the list it builds and returns is empty.                             *)
C2_SecondRunIdle ==
    (/\ fn = "db" /\ ~force_rerun
     /\ run = 2 /\ pc # "start"
     /\ AllMarked(1)) =>
        /\ InvokedIn(2) = <<>>
        /\ genomes = <<>>
        /\ \A j \in 1..Len(returned) :
              (returned[j].run = 2 /\ returned[j].how = "return") => returned[j].value = <<>>

\* both files were built in the first run, the second run returned an empty list
C2_Witness ==
    /\ fn = "db" /\ ~force_rerun /\ run = 2 /\ pc = "returned"
    /\ Len(file_list) = 2 /\ Len(InvokedIn(1)) = 2
    /\ AllMarked(1)
    /\ returned[2].value = <<>> /\ returned[1].value # <<>>

(* C4: with force_rerun true, every file a run is past has had exactly one  *)
(* external invocation in that run, for its resolved name, when the invoker *)
(* is directory_db_generator or the resolved name is in defaults.SPECIES,   *)
(* markers or no markers; a database run that returns, returns one entry    *)
(* per file; the second run repeats the command of the first run for every  *)
(* file both resolved alike.                                                *)
C4_ForceRerun ==
    force_rerun =>
      /\ \A r \in 1..run : \A p \in Positions :
            Completed(r, p) =>
               LET v  == ResolvedValue(r, p)
                   iv == InvokedFor(r, p) IN
               IF fn = "db" \/ In(v, SPECIES)
               THEN Len(iv) = 1 /\ PyStr(iv[1].name) = v
               ELSE iv = <<>>
      /\ \A j \in 1..Len(returned) :
            (returned[j].how = "return" /\ fn = "db") =>
               /\ Len(returned[j].value) = Len(file_list)
               /\ \A p \in Positions :
                     PyStr(returned[j].value[p]) = ResolvedValue(returned[j].run, p)
      /\ \A p \in Positions :
            (Completed(1, p) /\ Completed(2, p) /\ ResolvedValue(1, p) = ResolvedValue(2, p))
               => Commands(1, p) = Commands(2, p)

\* a forced second database run has rebuilt two species that were marked complete
C4_Witness ==
    /\ fn = "db" /\ force_rerun /\ run = 2 /\ pc = "returned"
    /\ Len(file_list) = 2 /\ AllMarked(2)
    /\ Len(InvokedIn(1)) = 2 /\ Len(InvokedIn(2)) = 2
    /\ Len(returned[2].value) = 2

----------------------------------------------------------------------------
(* C9: when objdict2fasta returns, the output file exists and holds exactly *)
(* the records of the mapping's entries, one per entry, in insertion order; *)
(* what the file held before is gone.                                       *)
C9_OneRecordPerEntry ==
    fpc = "done" =>
        /\ out_file.exists
        /\ out_file.content = [k \in 1..Len(object_dict) |-> object_dict[k].obj.rec]

\* three entries, inserted in an order that is not the order of their keys
C9_Witness ==
    /\ fpc = "done" /\ Len(object_dict) = 3
    /\ object_dict[1].key > object_dict[2].key
    /\ out_file.content = <<"r2", "r1", "r2">>

----------------------------------------------------------------------------
(* C10 (as claimed): whenever the external tool runs for a species, in any  *)
(* invoker, the directory of that species exists under the root.            *)
C10_DirectoryInEveryInvoker ==
    pc = "running" => In(sc_name, dirs)

(* C10 (amended): in directory_db_generator the species directory exists    *)
(* from before the database builder is spawned until the run ends.          *)
C10_DbDirectoryBeforeSpawn ==
    /\ (fn = "db" /\ pc \in {"spawn", "running"}) => In(sc_name, dirs)
    /\ \A j \in 1..Len(invoked) : invoked[j].tool = "db" => invoked[j].name \in dirs

\* the builder runs for a species that had no marker, in a directory of its own
C10_Witness ==
    /\ fn = "db" /\ pc = "running" /\ idx = 1
    /\ ~In(sc_name, valid_directories)
    /\ dirs = {sc_name.v}

----------------------------------------------------------------------------
(* C11 (as claimed): in a run with force_rerun false no external tool is    *)
(* started for a species whose marker file is in the tree at that moment,   *)
(* a marker written earlier in the same batch included.                     *)
C11_NoRebuildOfMarked ==
    ~force_rerun => \A j \in 1..Len(invoked) : ~invoked[j].marked

(* C12: a step taken at the skip check when sc_name is in the               *)
(* already-complete set and force_rerun is false changes nothing but the    *)
(* position in file_list: no directory or marker appears, no process is     *)
(* spawned, the result list and the already-complete set stay as they are,  *)
(* and the loop goes on to the next file.                                   *)
C12_SkipHasNoEffect ==
    [][(pc = "skip_check" /\ In(sc_name, valid_directories) /\ ~force_rerun) =>
          /\ UNCHANGED <<dirs, ndb, esq, fasta, gff>>
          /\ UNCHANGED <<invoked, genomes, valid_directories, returned>>
          /\ idx' = idx + 1
          /\ pc' = "for_file"]_vars

\* the first file was skipped and the second one is up
C12_Witness ==
    /\ ~force_rerun /\ pc = "for_attempt" /\ idx = 2
    /\ In(ResolvedValue(run, 1), valid_directories)
    /\ invoked = <<>> /\ genomes = <<>>

(* C13: in directory_db_generator the result list is, at every moment, the  *)
(* resolved names of the files whose database builder was started in this   *)
(* run and has exited, in file_list order: one entry per invocation, none   *)
(* for a file that was skipped, none yet for the builder that is running;   *)
(* the list returned is the list of all invocations of the run.             *)
C13_ResultList ==
    fn = "db" =>
      LET inv   == InvokedIn(run)
          names == [k \in 1..Len(inv) |-> inv[k].name]
          done  == IF pc = "running" THEN SubSeq(names, 1, Len(names) - 1) ELSE names IN
      /\ genomes = done
      /\ \A k \in 1..Len(inv) :
            /\ PyStr(inv[k].name) = ResolvedValue(run, inv[k].pos)
            /\ k > 1 => inv[k-1].pos < inv[k].pos
      /\ \A j \in 1..Len(returned) :
            (returned[j].run = run /\ returned[j].how = "return") => returned[j].value = names

\* the first file was skipped, the second built, and the list of that one name returned
C13_Witness ==
    /\ fn = "db" /\ pc = "returned" /\ Len(file_list) = 2
    /\ InvokedFor(run, 1) = <<>> /\ Len(InvokedFor(run, 2)) = 1
    /\ returned[Len(returned)].value = <<ResolvedValue(run, 2).v>>

(* C14 (as claimed): every exception the remote taxonomy call raises, once  *)
(* the identifier has parsed as an integer, makes the resolver call raise,  *)
(* so that the retry loop sees it; none is turned into a returned value.    *)
C14_RemoteErrorsRaise ==
    \A j \in 1..Len(calls) :
      (IntParses(Query(calls[j].pos)) /\ calls[j].resp.kind \in {"error", "valueerror"})
          => calls[j].kind = "raise"

----------------------------------------------------------------------------
\* the harvest of run r for position p was left out although the name is registered
NotHarvested(p) ==
    /\ fn = "harvest" /\ ~force_rerun /\ Completed(run, p)
    /\ In(ResolvedValue(run, p), SPECIES)
    /\ InvokedFor(run, p) = <<>>

(* C15 (as claimed): ltr_harvester leaves a registered species out only     *)
(* when both its .fasta and its .gff file are under the output root; with   *)
(* one of the two missing the species is harvested again.                   *)
C15_PairDecides ==
    \A p \in Positions :
      NotHarvested(p) =>
          (ResolvedValue(run, p).v \in fasta /\ ResolvedValue(run, p).v \in gff)

(* C15 (amended): the already-complete set of ltr_harvester is the set of   *)
(* the .fasta files under the output root when the run starts, whatever     *)
(* .gff files exist; with force_rerun false a registered species is left    *)
(* out exactly when it is in that set.                                      *)
C15_FastaAloneDecides ==
    fn = "harvest" =>
      /\ (pc = "for_file" /\ idx = 1) => valid_directories = fasta
      /\ ~force_rerun =>
           \A p \in Positions :
             (Completed(run, p) /\ In(ResolvedValue(run, p), SPECIES)) =>
                IF ResolvedValue(run, p).v \in valid_directories
                THEN InvokedFor(run, p) = <<>>
                ELSE Len(InvokedFor(run, p)) = 1

\* a species with a .fasta file and no .gff file was left out
C15_Witness ==
    /\ pc = "returned" /\ Len(file_list) = 1
    /\ NotHarvested(1)
    /\ ResolvedValue(run, 1).v \in fasta /\ ResolvedValue(run, 1).v \notin gff

----------------------------------------------------------------------------
(* C16: when producing the record of the j-th entry fails, objdict2fasta    *)
(* ends with that exception: the output file is there and holds exactly the *)
(* records of the j-1 entries before it, in order, and no step follows, so  *)
(* no later entry is written.                                               *)
C16_PartialFileLeft ==
    fpc = "raised" =>
        /\ pos < Len(object_dict) /\ ~object_dict[pos + 1].obj.ok
        /\ \A k \in 1..pos : object_dict[k].obj.ok
        /\ out_file.exists
        /\ out_file.content = [k \in 1..pos |-> object_dict[k].obj.rec]
        /\ ~ENABLED NextFasta

\* the second of three entries failed; the first record is in the file, the third is not
C16_Witness ==
    /\ fpc = "raised" /\ Len(object_dict) = 3 /\ pos = 1
    /\ object_dict[3].obj.ok
    /\ out_file.content = <<object_dict[1].obj.rec>>

----------------------------------------------------------------------------
(* C17 (as claimed): whatever max_attempts is, a file gets to the skip      *)
(* check, the directory creation or the external invocation only with a     *)
(* species name the resolver returned, never with sc_name still None.       *)
C17_NeverUnresolved ==
    pc \in {"skip_check", "spawn", "running"} => sc_name # PyNone

----------------------------------------------------------------------------
(* C18 (as claimed): a run makes at most max_attempts resolver calls for a  *)
(* file and starts at most one external process per file, in file_list      *)
(* order, no resolver call being made while a process runs; and when the    *)
(* run is over, the invoker has returned or has raised the terminal         *)
(* failure.                                                                 *)
C18_BoundedRunEndsByReturnOrFailure ==
    /\ Len(calls) <= max_attempts
    /\ \A p \in Positions : Len(InvokedFor(run, p)) <= 1
    /\ \A j \in 2..Len(invoked) :
          invoked[j].run = invoked[j-1].run => invoked[j-1].pos < invoked[j].pos
    /\ pc = "running" => (invoked # <<>> /\ invoked[Len(invoked)].pos = idx
                          /\ \A j \in 1..Len(calls) : calls[j].pos = idx)
    /\ ~ENABLED Next => pc \in {"returned", "raised"}
====
